---------------------------- MODULE Spec2Model ----------------------------
(***************************************************************************)
(* A model of the array-backed binary heap of src/MaxHeap.cpp (class       *)
(* MinHeap<T>, documented as a max-heap), instantiated at T = int.         *)
(*                                                                         *)
(* The heap object is the triple _cache / _size / _capacity.  Every public *)
(* call (the constructor, Insert, Delete, operator<<) is one       *)
(* action that runs the whole call, its private helpers included.          *)
(*                                                                         *)
(* Undefined behaviour is modelled as a choice between its outcomes:       *)
(*   - a read outside the allocated array, of a cell never written, or of  *)
(*     a released buffer yields an arbitrary value of Garbage, or the      *)
(*     process stops (status "crashed");                                   *)
(*   - a write outside the allocated array does not reach any cell of the  *)
(*     array;                                                              *)
(*   - once _size exceeds the allocated length the heap's own elements     *)
(*     lie outside its storage: status "undefined", followed no further.   *)
(***************************************************************************)
EXTENDS Integers, Sequences, FiniteSets, Bags

VARIABLES
    cache,      \* _cache: the allocated array, a function 0..(length-1) -> int
    size,       \* _size
    capacity,   \* _capacity
    status,     \* "ok" | "crashed" | "undefined"
    out,        \* what the last PrintOut wrote: a sequence of <<index, value>>
    last,       \* the last call: its name, argument, pre-state sizes, traces
    phase,      \* "fill": only Inserts so far; "drain": Inserts, then Deletes;
                \* "mixed": anything else
    inserted,   \* the arguments of the Inserts of the fill phase, in call order
    extracted   \* the roots removed by the Deletes of the drain phase, in order

vars == <<cache, size, capacity, status, out, last, phase, inserted, extracted>>

---------------------------------------------------------------------------
(* Bounds of the model. *)

MaxCap == 3         \* constructor arguments are 0..MaxCap
MaxSize == 4        \* Insert is called only while _size < MaxSize
DeepSize == 6       \* the same, for the heaps that never grow
MaxVal == 2         \* elements are Sentinel..MaxVal
PathSize == 8       \* Insert is called only while _size < PathSize, with
PathVal == 1        \* arguments 0..PathVal, for the heaps of three levels
TallSize == 14      \* Insert is called only while _size < TallSize, with
TallVal == 0        \* arguments 0..TallVal, for the heaps of four levels

(* The value that PercolateDown reads as "no child here". *)
Sentinel == -1

Elem == Sentinel..MaxVal

(* The values an indeterminate read can produce. *)
Garbage == Elem

(* size_t is an unsigned type whose arithmetic wraps; the model keeps the  *)
(* wrap-around at a width TLC's integers can hold.                         *)
SizeBits == 16
SizeMod == 2 ^ SizeBits
SIZE_MAX == SizeMod - 1

(* The content of an array cell that was allocated and never written. *)
Uninit == -99

---------------------------------------------------------------------------
(* Index arithmetic. *)

GetParentNode(index) == (((index - 1) + SizeMod) % SizeMod) \div 2

GetLeftChildNode(index) == ((2 * index) + 1) % SizeMod

GetRightChildNode(index) == ((2 * index) + 2) % SizeMod

Allocated(c, i) == i \in DOMAIN c

(* swap() that stores one side only. *)
SwapOneWay(c, i, j) == [c EXCEPT ![i] = c[j]]

Swap(c, i, j) == [c EXCEPT ![i] = c[j], ![j] = c[i]]

Max(a, b) == IF a < b THEN b ELSE a

---------------------------------------------------------------------------
(* PercolateUp(index): the set of outcomes [cache, swaps, oob].  swaps is  *)
(* the sequence of <<parent, index>> pairs exchanged, oob tells whether an *)
(* index outside the allocated array was used.  At index 0 the parent is   *)
(* (0 - 1) / 2 in size_t, a huge index: the guard parent > 0 holds and     *)
(* _cache[parent] is read outside the array.  If that read yields a value  *)
(* below _cache[0] the swap moves it into _cache[0] and the element leaves *)
(* the array; the recursive call that follows works on cells outside the   *)
(* array only.                                                             *)

RECURSIVE PercolateUp(_, _, _)
PercolateUp(c, index, tr) ==
    LET parent == GetParentNode(index) IN
    IF ~(parent > 0)
    THEN {[cache |-> c, swaps |-> tr, oob |-> FALSE]}
    ELSE IF Allocated(c, parent)
    THEN IF c[parent] < c[index]
         THEN PercolateUp(Swap(c, parent, index), parent,
                          Append(tr, <<parent, index>>))
         ELSE {[cache |-> c, swaps |-> tr, oob |-> FALSE]}
    ELSE {[cache |-> IF g < c[index] THEN [c EXCEPT ![index] = g] ELSE c,
           swaps |-> IF g < c[index] THEN Append(tr, <<parent, index>>) ELSE tr,
           oob   |-> TRUE] : g \in Garbage}

---------------------------------------------------------------------------
(* CacheResize(new_capacity): the set of arrays the call can leave.  The   *)
(* old buffer is released first and then read; the copy loop starts at 1   *)
(* and runs to the old capacity.  Cell 0 of the new array is never         *)
(* written, each copied cell holds the old value or whatever the released  *)
(* buffer holds by then, the cells from the old capacity on are fresh.     *)

CacheResize(c, cap, new_capacity) ==
    { [i \in 0..(new_capacity - 1) |->
          IF i = 0 THEN g[0]
          ELSE IF i < cap
               THEN (IF i \in clobbered /\ c[i] # Uninit THEN g[i] ELSE c[i])
               ELSE Uninit]
      : g \in [0..(Max(cap, 1) - 1) -> Garbage],
        clobbered \in SUBSET (1..(cap - 1)) }

(* The statements of CacheResize in the order they run, as seen from the   *)
(* two buffers: "old" is the array _cache pointed to on entry (temp), "new" *)
(* the one allocated by the call.                                           *)
CacheResizeSteps(cap) ==
    <<[op |-> "release", buf |-> "old", index |-> 0],
      [op |-> "allocate", buf |-> "new", index |-> 0]>>
    \o [k \in 1..(2 * (cap - 1)) |->
          IF k % 2 = 1
          THEN [op |-> "read", buf |-> "old", index |-> (k + 1) \div 2]
          ELSE [op |-> "write", buf |-> "new", index |-> k \div 2]]

---------------------------------------------------------------------------
(* The state after construction: MinHeap(capacity). *)

NoCall == [op |-> "New", x |-> 0, size0 |-> 0, capacity0 |-> 0,
           error |-> "none", resized |-> FALSE, oob |-> FALSE, swaps |-> <<>>,
           steps |-> <<>>]

MinHeapCtor(cap) ==
    /\ cache = [i \in 0..cap |-> Uninit]
    /\ size = 0
    /\ capacity = cap
    /\ status = "ok"

Constructed ==
    /\ \E cap \in 0..MaxCap :
          /\ MinHeapCtor(cap)
          /\ last = [NoCall EXCEPT !.x = cap, !.capacity0 = cap]
    /\ out = <<>>
    /\ inserted = <<>>
    /\ extracted = <<>>

(* Any sequence of calls; the fill/drain record is not kept. *)
Init == Constructed /\ phase = "mixed"

(* Inserts followed by Deletes, with the record of both. *)
InitSorted == Constructed /\ phase = "fill"

(* As Init, for a heap constructed with room for every Insert that follows, *)
(* as the heap of main() is: CacheResize is never reached.                  *)
DeepCap == 2 * DeepSize

InitDeep ==
    /\ MinHeapCtor(DeepCap)
    /\ last = [NoCall EXCEPT !.x = DeepCap, !.capacity0 = DeepCap]
    /\ out = <<>>
    /\ inserted = <<>>
    /\ extracted = <<>>
    /\ phase = "mixed"

(* A heap with room for PathSize elements, none of them the sentinel. *)
PathCap == 2 * PathSize

PathElem == 0..PathVal

InitPath ==
    /\ MinHeapCtor(PathCap)
    /\ last = [NoCall EXCEPT !.x = PathCap, !.capacity0 = PathCap]
    /\ out = <<>>
    /\ inserted = <<>>
    /\ extracted = <<>>
    /\ phase = "mixed"

(* A heap with room for TallSize elements. *)
TallCap == 2 * TallSize

TallElem == 0..TallVal

InitTall ==
    /\ MinHeapCtor(TallCap)
    /\ last = [NoCall EXCEPT !.x = TallCap, !.capacity0 = TallCap]
    /\ out = <<>>
    /\ inserted = <<>>
    /\ extracted = <<>>
    /\ phase = "mixed"

---------------------------------------------------------------------------
(* Insert(x). *)

(* Insert that grows when the heap was full before the call. *)
GrownWhenFull(c, cap, n) ==
    IF n - 1 = cap
    THEN {[cache |-> a, capacity |-> (cap * 2) % SizeMod, resized |-> TRUE,
           steps |-> CacheResizeSteps(cap)]
            : a \in CacheResize(c, cap, (cap * 2) % SizeMod)}
    ELSE {[cache |-> c, capacity |-> cap, resized |-> FALSE, steps |-> <<>>]}

Grown(c, cap, n) ==
    IF n = cap
    THEN {[cache |-> a, capacity |-> (cap * 2) % SizeMod, resized |-> TRUE,
           steps |-> CacheResizeSteps(cap)]
            : a \in CacheResize(c, cap, (cap * 2) % SizeMod)}
    ELSE {[cache |-> c, capacity |-> cap, resized |-> FALSE, steps |-> <<>>]}

Insert(x) ==
    /\ status = "ok"
    /\ LET n == (size + 1) % SizeMod IN
       \E r \in Grown(cache, capacity, n) :
          /\ size' = n
          /\ capacity' = r.capacity
          /\ IF ~Allocated(r.cache, n - 1)
             THEN /\ cache' = r.cache
                  /\ status' \in {"undefined", "crashed"}
                  /\ last' = [op |-> "Insert", x |-> x, size0 |-> size,
                              capacity0 |-> capacity, error |-> "none",
                              resized |-> r.resized, oob |-> TRUE,
                              swaps |-> <<>>, steps |-> r.steps]
             ELSE \E p \in PercolateUp([r.cache EXCEPT ![n - 1] = x], n - 1, <<>>) :
                  /\ cache' = p.cache
                  /\ status' \in (IF p.oob THEN {"ok", "crashed"} ELSE {"ok"})
                  /\ last' = [op |-> "Insert", x |-> x, size0 |-> size,
                              capacity0 |-> capacity, error |-> "none",
                              resized |-> r.resized, oob |-> p.oob,
                              swaps |-> p.swaps, steps |-> r.steps]
    /\ out' = <<>>
    /\ phase' = IF phase = "fill" THEN "fill" ELSE "mixed"
    /\ inserted' = IF phase = "fill" THEN Append(inserted, x) ELSE <<>>
    /\ extracted' = <<>>

---------------------------------------------------------------------------
(* PercolateDown(index) on a heap of n elements: [cache, swaps], swaps the *)
(* sequence of <<parent, child>> pairs exchanged.  Nothing is done unless  *)
(* both children of index lie below n.  The node whose children are        *)
(* examined is GetParentNode(index + 2); it is exchanged with a child      *)
(* without being compared with it.  max_value is an unsigned int; it is    *)
(* computed only from values above -1, which the conversion leaves as they *)
(* are.                                                                    *)

RECURSIVE PercolateDown(_, _, _, _)
PercolateDown(c, index, n, tr) ==
    IF GetLeftChildNode(index) < n /\ GetRightChildNode(index) < n
    THEN LET parent == GetParentNode((index + 2) % SizeMod)
             left_child == GetLeftChildNode(parent)
             right_child == GetRightChildNode(parent)
         IN  IF c[left_child] > Sentinel /\ c[right_child] > Sentinel
             THEN LET max_value == Max(c[left_child], c[right_child])
                      max_index == IF max_value = c[left_child]
                                   THEN left_child ELSE right_child
                  IN  PercolateDown(Swap(c, parent, max_index), max_index, n,
                                    Append(tr, <<parent, max_index>>))
             ELSE LET child_select == IF c[left_child] # Sentinel
                                      THEN left_child ELSE right_child
                  IN  PercolateDown(Swap(c, parent, child_select), child_select, n,
                                    Append(tr, <<parent, child_select>>))
    ELSE [cache |-> c, swaps |-> tr]

(* Delete().  With _size = 0 the last node is _cache[0 - 1] in size_t, a   *)
(* cell outside the array, and _size wraps to SIZE_MAX.                    *)

DeleteSwapLast(c, n) == Swap(c, 0, n - 1)

Delete ==
    /\ status = "ok"
    /\ IF size = 0
       THEN /\ \E g \in Garbage : cache' = [cache EXCEPT ![0] = g]
            /\ size' = SIZE_MAX
            /\ status' \in {"undefined", "crashed"}
            /\ last' = [op |-> "Delete", x |-> 0, size0 |-> size,
                        capacity0 |-> capacity, error |-> "none",
                        resized |-> FALSE, oob |-> TRUE, swaps |-> <<>>,
                        steps |-> <<>>]
            /\ UNCHANGED <<phase, inserted, extracted>>
       ELSE LET p == PercolateDown(DeleteSwapLast(cache, size), 0, size - 1, <<>>) IN
            /\ cache' = p.cache
            /\ size' = size - 1
            /\ status' = "ok"
            /\ last' = [op |-> "Delete", x |-> 0, size0 |-> size,
                        capacity0 |-> capacity, error |-> "none",
                        resized |-> FALSE, oob |-> FALSE, swaps |-> p.swaps,
                        steps |-> <<>>]
            /\ phase' = IF phase = "mixed" THEN "mixed" ELSE "drain"
            /\ inserted' = IF phase = "mixed" THEN <<>> ELSE inserted
            /\ extracted' = IF phase = "mixed" THEN <<>>
                            ELSE Append(extracted, cache[0])
    /\ UNCHANGED capacity
    /\ out' = <<>>

---------------------------------------------------------------------------
(* The Print method, reached through operator<<: a line "i. value" for each i  *)
(* below _size.                                                            *)

(* A print loop that starts at 1, as the copy loop of CacheResize does. *)
PrintLinesFromOne(c, n) == [k \in 1..(n - 1) |-> <<k, c[k]>>]

PrintLines(c, n) == [k \in 1..n |-> <<k - 1, c[k - 1]>>]

PrintOut ==
    /\ status = "ok"
    /\ out' = PrintLines(cache, size)
    /\ last' = [op |-> "PrintOut", x |-> 0, size0 |-> size,
                capacity0 |-> capacity, error |-> "none",
                resized |-> FALSE, oob |-> FALSE, swaps |-> <<>>,
                steps |-> <<>>]
    /\ UNCHANGED <<cache, size, capacity, status, phase, inserted, extracted>>

---------------------------------------------------------------------------

Next ==
    \/ \E x \in Elem : size < MaxSize /\ Insert(x)
    \/ Delete
    \/ PrintOut

Spec == Init /\ [][Next]_vars

NextSorted ==
    \/ \E x \in Elem : size < MaxSize /\ phase = "fill" /\ Insert(x)
    \/ size > 0 /\ Delete

SpecSorted == InitSorted /\ [][NextSorted]_vars

NextDeep ==
    \/ \E x \in Elem : size < DeepSize /\ Insert(x)
    \/ size > 0 /\ Delete

SpecDeep == InitDeep /\ [][NextDeep]_vars

NextPath ==
    \/ \E x \in PathElem : size < PathSize /\ Insert(x)
    \/ size > 0 /\ Delete

SpecPath == InitPath /\ [][NextPath]_vars

NextTall ==
    \/ \E x \in TallElem : size < TallSize /\ Insert(x)
    \/ size > 0 /\ Delete

SpecTall == InitTall /\ [][NextTall]_vars

TypeOK ==
    /\ status \in {"ok", "crashed", "undefined"}
    /\ status = "ok" => /\ size <= MaxSize
                        /\ \A i \in 0..(size - 1) : Allocated(cache, i) /\ cache[i] \in Elem

---------------------------------------------------------------------------
(* Vocabulary of the properties. *)

(* The multiset of the elements at indices 0..n-1 of c. *)
HeapBag(c, n) ==
    [v \in {c[i] : i \in 0..(n - 1)} |-> Cardinality({i \in 0..(n - 1) : c[i] = v})]

(* A step that is a call of Insert / Delete / operator<<: every call      *)
(* records itself in last, and two calls in a row that leave the same      *)
(* record leave the same state.                                            *)
InsertCall == last' # last /\ last'.op = "Insert"
DeleteCall == last' # last /\ last'.op = "Delete"
PrintCall == last' # last /\ last'.op = "PrintOut"

(* Has the call returned to its caller? *)
Returned == status = "ok"

RECURSIVE SortDesc(_)
SortDesc(s) ==
    IF s = <<>> THEN <<>>
    ELSE LET m == CHOOSE k \in 1..Len(s) : \A j \in 1..Len(s) : s[j] <= s[k]
         IN  <<s[m]>> \o SortDesc(SubSeq(s, 1, m - 1) \o SubSeq(s, m + 1, Len(s)))

---------------------------------------------------------------------------
(* C1.  Heap order (max-heap): after every Insert and every Delete on a    *)
(* non-empty heap returns, cache[(i-1)/2] >= cache[i] for every index i    *)
(* with 0 < i < size.                                                      *)
C1_HeapOrder ==
    Returned => \A i \in 1..(size - 1) : cache[(i - 1) \div 2] >= cache[i]

(* C2.  Sorted extraction: after any Inserts into a new heap, the k-th     *)
(* Delete removes the k-th largest inserted element, and as many Deletes   *)
(* as Inserts leave size = 0.                                              *)
C2_SortedExtraction ==
    (Returned /\ phase \in {"fill", "drain"}) =>
        /\ \A k \in 1..Len(extracted) : extracted[k] = SortDesc(inserted)[k]
        /\ Len(extracted) = Len(inserted) => size = 0

(* C3.  Delete on a heap with size >= 1 removes exactly the root: the      *)
(* multiset of cache[0..size-1] after the call is the multiset before it   *)
(* less one occurrence of the old cache[0].                                *)
C3_DeleteRemovesRoot ==
    [][(DeleteCall /\ size >= 1) =>
          HeapBag(cache', size') (+) SetToBag({cache[0]}) = HeapBag(cache, size)]_vars

C3_Witness ==
    /\ last.op = "Delete" /\ Returned
    /\ Len(last.swaps) >= 2
    /\ size >= 5
    /\ \E i, j \in 0..(size - 1) : cache[i] # cache[j]

(* C4.  Delete on a heap with size 0 fails with EmptyHeap and changes      *)
(* nothing: size stays 0, cache and capacity are as before.                *)
C4_EmptyDeleteFails ==
    [][(DeleteCall /\ size = 0) =>
          /\ last'.error = "EmptyHeap"
          /\ size' = 0
          /\ cache' = cache
          /\ capacity' = capacity]_vars

(* C5.  Growth: every element stored at 0..size-1 before an Insert that   *)
(* resizes the storage is still stored after it (the multiset before the   *)
(* call is contained in the multiset after it).                            *)
C5_GrowthKeepsElements ==
    [][(InsertCall /\ last'.resized /\ Returned') =>
          HeapBag(cache, size) \sqsubseteq HeapBag(cache', size')]_vars

(* C6.  Size accounting: size is 0 after construction, an Insert adds      *)
(* exactly 1, a Delete on a non-empty heap takes exactly 1 away, and the   *)
(* enumeration yields the size entries at 0..size-1 in array order and     *)
(* changes nothing.                                                        *)
C6_SizeAccounting ==
    /\ [](last.op = "New" => size = 0)
    /\ [][/\ (InsertCall /\ Returned') => size' = size + 1
          /\ (DeleteCall /\ size >= 1) => size' = size - 1
          /\ PrintCall =>
                /\ Len(out') = size
                /\ \A k \in 1..size : out'[k] = <<k - 1, cache[k - 1]>>
                /\ UNCHANGED <<cache, size, capacity, status>>]_vars

C6_Witness ==
    /\ last.op = "PrintOut"
    /\ size >= 2
    /\ Len(out) = size

(* C7.  Construction with capacity 0 fails with InvalidArgument and gives  *)
(* no usable heap; with capacity >= 1 it gives size = 0 and that capacity. *)
C7_ConstructorValidates ==
    last.op = "New" =>
        IF last.x = 0
        THEN last.error = "InvalidArgument" /\ status # "ok"
        ELSE last.error = "none" /\ status = "ok" /\ size = 0 /\ capacity = last.x

(* C8, as claimed.  An Insert changes capacity only if size = capacity     *)
(* held before it, and then doubles it; an Insert into a heap that is not  *)
(* full and every Delete leave capacity alone; capacity never decreases.   *)
C8_GrowsWhenFull ==
    [][/\ (InsertCall /\ capacity' # capacity) =>
              (size = capacity /\ capacity' = 2 * capacity)
       /\ (InsertCall /\ size # capacity) => capacity' = capacity
       /\ DeleteCall => capacity' = capacity
       /\ capacity' >= capacity]_vars

(* C8, amended.  An Insert changes capacity only if size + 1 = capacity    *)
(* held before it (the new element takes the last free slot), and then     *)
(* doubles it; any other Insert and every Delete leave capacity alone;     *)
(* capacity never decreases.                                               *)
C8_GrowsWhenFilling ==
    [][/\ (InsertCall /\ capacity' # capacity) =>
              (size + 1 = capacity /\ capacity' = 2 * capacity)
       /\ (InsertCall /\ size + 1 # capacity) => capacity' = capacity
       /\ DeleteCall => capacity' = capacity
       /\ capacity' >= capacity]_vars

C8_Witness ==
    /\ last.op = "Insert" /\ Returned
    /\ last.size0 + 1 = last.capacity0
    /\ last.size0 >= 1
    /\ capacity = 2 * last.capacity0

(* C9.  size <= capacity whenever a call has returned.                     *)
C9_SizeWithinCapacity ==
    Returned => size <= capacity

(* C10.  Sift-up reaches the root: after the Insert of an element greater  *)
(* than every stored element, that element is at index 0.                  *)
C10_SiftUpReachesRoot ==
    [][(InsertCall /\ Returned' /\ \A i \in 0..(size - 1) : cache[i] < last'.x) =>
          cache'[0] = last'.x]_vars

---------------------------------------------------------------------------
(* The sift-down of the last Delete, replayed on the array it started      *)
(* from: the array after the swap of root and last node.                   *)

(* Every exchange of tr, applied in turn to c, moves a child up that is    *)
(* strictly greater than the node above it.                                *)
RECURSIVE OnlyGreaterChildren(_, _)
OnlyGreaterChildren(c, tr) ==
    \/ tr = <<>>
    \/ /\ c[tr[1][2]] > c[tr[1][1]]
       /\ OnlyGreaterChildren(Swap(c, tr[1][1], tr[1][2]), Tail(tr))

(* The index at which the sift-down tr, started at the root, ended. *)
RestingIndex(tr) == IF tr = <<>> THEN 0 ELSE tr[Len(tr)][2]

(* C11.  Sift-down stops when order holds: each exchange made by the       *)
(* percolate-down of a Delete moves up a child that is strictly greater    *)
(* than the node it is exchanged with; a node that is greater than or      *)
(* equal to its children is exchanged with neither.                        *)
C11_SiftDownStopsInOrder ==
    [][(DeleteCall /\ size >= 1) =>
          OnlyGreaterChildren(DeleteSwapLast(cache, size), last'.swaps)]_vars

(* C12.  Sift-down follows the relocated element: the first exchange of   *)
(* a Delete is made at the root, every exchange is between an index i and  *)
(* one of its own children 2i+1, 2i+2, and the next one is made at that    *)
(* child, so that the exchanges lie on one path from the root.             *)
C12_SiftDownOnOnePath ==
    [][(DeleteCall /\ size >= 1) =>
          \A k \in 1..Len(last'.swaps) :
             /\ last'.swaps[k][1] = (IF k = 1 THEN 0 ELSE last'.swaps[k - 1][2])
             /\ last'.swaps[k][2] \in {2 * last'.swaps[k][1] + 1,
                                       2 * last'.swaps[k][1] + 2}]_vars

(* C13.  Single child: when the sift-down of a Delete ends at a node that  *)
(* has a left child below size and no right child, that node is not        *)
(* smaller than the child; after a Delete that leaves size 2 the larger    *)
(* of the two elements is at index 0.                                      *)
C13_SingleChildCompared ==
    (last.op = "Delete" /\ Returned) =>
        LET i == RestingIndex(last.swaps) IN
        (2 * i + 1 < size /\ 2 * i + 2 >= size) => cache[i] >= cache[2 * i + 1]

(* The heap of n elements c with k taken from every element: the same     *)
(* shape, the same order between any two elements.                         *)
Shifted(c, n, k) == [i \in DOMAIN c |-> IF i < n THEN c[i] - k ELSE c[i]]

(* C14.  Child existence is decided by index, not by value: the Delete of  *)
(* a heap built by Inserts makes the same exchanges, index for index, as   *)
(* the Delete of the heap of the same elements less a constant k.          *)
C14_ChildrenByIndexOnly ==
    [][(DeleteCall /\ size >= 1 /\ phase = "fill") =>
          \A k \in 1..(MaxVal + 1) :
             PercolateDown(DeleteSwapLast(Shifted(cache, size, k), size),
                           0, size - 1, <<>>).swaps = last'.swaps]_vars

(* C15.  Resize ordering: no step of CacheResize reads a buffer that an   *)
(* earlier step of the call released; the old buffer is released after     *)
(* the copy.                                                               *)
C15_NoReadAfterRelease ==
    \A j \in 1..Len(last.steps) :
       last.steps[j].op = "read" =>
          ~\E i \in 1..(j - 1) : /\ last.steps[i].op = "release"
                                 /\ last.steps[i].buf = last.steps[j].buf

(* C16.  Memory safety: every index that Insert and Delete on a non-empty *)
(* heap use on the array lies inside the allocated array.                  *)
C16_IndicesInsideArray ==
    (last.op = "Insert" \/ (last.op = "Delete" /\ last.size0 >= 1)) => ~last.oob

(* C17.  Termination: Insert and Delete on a non-empty heap run to         *)
(* completion; the sift-up goes through strictly decreasing indices, each  *)
(* exchange made at the index the one before moved to, and the sift-down   *)
(* through strictly increasing indices below size.                         *)
C17_SiftUpDescends ==
    [][InsertCall =>
          /\ Returned'
          /\ \A k \in 1..Len(last'.swaps) :
                /\ last'.swaps[k][1] < last'.swaps[k][2]
                /\ last'.swaps[k][2] =
                      (IF k = 1 THEN size ELSE last'.swaps[k - 1][1])]_vars

C17_SiftDownAscends ==
    [][(DeleteCall /\ size >= 1) =>
          /\ Returned'
          /\ \A k \in 1..Len(last'.swaps) :
                /\ last'.swaps[k][2] < size'
                /\ last'.swaps[k][2] >
                      (IF k = 1 THEN 0 ELSE last'.swaps[k - 1][2])]_vars

C17_CallsTerminate == C17_SiftUpDescends /\ C17_SiftDownAscends

(* The height of a complete binary tree of n >= 1 nodes. *)
RECURSIVE Log2Floor(_)
Log2Floor(n) == IF n <= 1 THEN 0 ELSE 1 + Log2Floor(n \div 2)

(* C18.  Logarithmic step bound: the sift-up of an Insert that leaves n    *)
(* elements and the sift-down of a Delete on n elements each exchange at   *)
(* most floor(log2(n)) times.                                              *)
C18_SiftUpBound ==
    [][(InsertCall /\ Returned') => Len(last'.swaps) <= Log2Floor(size')]_vars

C18_SiftDownBound ==
    [][(DeleteCall /\ size >= 1) => Len(last'.swaps) <= Log2Floor(size)]_vars

C18_LogarithmicSteps == C18_SiftUpBound /\ C18_SiftDownBound

(* The indices from slot i up to the root of the tree. *)
RECURSIVE PathToRoot(_)
PathToRoot(i) == IF i = 0 THEN <<0>> ELSE <<i>> \o PathToRoot((i - 1) \div 2)

(* The part of C19 about the cells that were live before the call: those  *)
(* off the path keep their value, those on the path keep it or take the    *)
(* value of their parent.                                                  *)
C19_LiveCellsKept ==
    [][(InsertCall /\ ~last'.resized /\ Returned') =>
          LET path == PathToRoot(size) IN
          /\ \A i \in 0..(size - 1) :
                (\A j \in 1..Len(path) : path[j] # i) => cache'[i] = cache[i]
          /\ \E k \in 1..Len(path) :
                /\ \A j \in 1..(k - 1) : cache'[path[j]] = cache[path[j + 1]]
                /\ \A j \in (k + 1)..Len(path) : cache'[path[j]] = cache[path[j]]]_vars

(* C19.  Insert frame: an Insert that does not resize exchanges only cells *)
(* on the path from the new slot (index = old size) to the root; every     *)
(* other index of 0..old size-1 holds the value it held; along the path    *)
(* the new element rests at one index, the old values below it have moved  *)
(* down one level and those above it are as they were.                     *)
C19_InsertFrame ==
    [][(InsertCall /\ ~last'.resized /\ Returned') =>
          LET path == PathToRoot(size)
              OnPath(i) == \E j \in 1..Len(path) : path[j] = i
          IN
          /\ \A s \in 1..Len(last'.swaps) :
                OnPath(last'.swaps[s][1]) /\ OnPath(last'.swaps[s][2])
          /\ \A i \in 0..(size - 1) : ~OnPath(i) => cache'[i] = cache[i]
          /\ \E k \in 1..Len(path) :
                /\ cache'[path[k]] = last'.x
                /\ \A j \in 1..(k - 1) : cache'[path[j]] = cache[path[j + 1]]
                /\ \A j \in (k + 1)..Len(path) : cache'[path[j]] = cache[path[j]]]_vars

(* C20.  Index mapping round trip: for every index i of the arrays built   *)
(* here GetLeftChildNode(i) = 2i+1, GetRightChildNode(i) = 2i+2, the      *)
(* parent of either child is i, and GetParentNode(i) = floor((i-1)/2) for  *)
(* i > 0; index 0 has no parent, so the sift-up that starts at index 0     *)
(* (the Insert into an empty heap) addresses no cell by GetParentNode(0).  *)
C20_RoundTrip ==
    \A i \in 0..TallCap :
        /\ GetLeftChildNode(i) = (2 * i) + 1
        /\ GetRightChildNode(i) = (2 * i) + 2
        /\ GetParentNode(GetLeftChildNode(i)) = i
        /\ GetParentNode(GetRightChildNode(i)) = i
        /\ i > 0 => GetParentNode(i) = (i - 1) \div 2

C20_RootHasNoParent ==
    (last.op = "Insert" /\ last.size0 = 0 /\ last.error = "none") =>
        /\ ~last.oob
        /\ \A s \in 1..Len(last.swaps) :
              /\ last.swaps[s][1] # GetParentNode(0)
              /\ last.swaps[s][2] # GetParentNode(0)

C20_IndexMapping == C20_RoundTrip /\ C20_RootHasNoParent

=============================================================================
